---------------------------- MODULE Spec2Model ----------------------------
(* Streaming CSV ingestion pipeline of backend/functions/process-csv/main.go *)
(* (the streaming variant, lines 1-407): one reader goroutine, numWorkers    *)
(* parseWorker goroutines, one supervisor goroutine, one batchInserter       *)
(* goroutine and the body of processCSVStreaming, communicating through the  *)
(* buffered channels rowsChan and usersChan, the channel errorsChan and the  *)
(* unbuffered channel insertDone.                                            *)
(*                                                                           *)
(* Strings are sequences of one-character strings, so that TrimSpace,        *)
(* ToLower, Atoi and ParseFloat are computed and not assumed.                *)
EXTENDS Integers, Sequences, FiniteSets, TLC

\* ------------------------------------------------------------------ bounds
\* Longest generated source file (data lines after the header).
MaxRows == 2
\* Largest worker pool explored (the source fixes NumWorkers = 4).
MaxWorkers == 2
\* Largest batch size explored (the source fixes BatchSize = 5000).
MaxBatch == 2
\* Capacity of rowsChan and of usersChan (the source fixes ChannelBuffer = 1000).
ChannelBuffer == 1
\* Most reads of one object body that fail with an I/O error.
MaxReadErrors == 1

\* ------------------------------------------------------- strings (library)
Digits == {"0", "1", "2", "3", "4", "5", "6", "7", "8", "9"}

DigitVal(c) ==
    CASE c = "0" -> 0 [] c = "1" -> 1 [] c = "2" -> 2 [] c = "3" -> 3
      [] c = "4" -> 4 [] c = "5" -> 5 [] c = "6" -> 6 [] c = "7" -> 7
      [] c = "8" -> 8 [] c = "9" -> 9

\* unicode.IsSpace on the characters the model feeds it
IsSpace(c) == c \in {" ", "\t"}

RECURSIVE TrimLeft(_)
TrimLeft(s) ==
    IF s # <<>> /\ IsSpace(Head(s)) THEN TrimLeft(Tail(s)) ELSE s

RECURSIVE TrimRight(_)
TrimRight(s) ==
    IF s # <<>> /\ IsSpace(s[Len(s)]) THEN TrimRight(SubSeq(s, 1, Len(s) - 1)) ELSE s

\* strings.TrimSpace
TrimSpace(s) == TrimRight(TrimLeft(s))

\* strings.ToLower on ASCII letters
LowerChar(c) ==
    CASE c = "A" -> "a" [] c = "B" -> "b" [] c = "C" -> "c" [] c = "D" -> "d"
      [] c = "E" -> "e" [] c = "F" -> "f" [] c = "G" -> "g" [] c = "H" -> "h"
      [] c = "I" -> "i" [] c = "J" -> "j" [] c = "K" -> "k" [] c = "L" -> "l"
      [] c = "M" -> "m" [] c = "N" -> "n" [] c = "O" -> "o" [] c = "P" -> "p"
      [] c = "Q" -> "q" [] c = "R" -> "r" [] c = "S" -> "s" [] c = "T" -> "t"
      [] c = "U" -> "u" [] c = "V" -> "v" [] c = "W" -> "w" [] c = "X" -> "x"
      [] c = "Y" -> "y" [] c = "Z" -> "z"
      [] OTHER -> c

ToLower(s) == [i \in 1..Len(s) |-> LowerChar(s[i])]

AllDigits(s) == \A i \in 1..Len(s) : s[i] \in Digits

RECURSIVE DecValue(_)
DecValue(s) ==
    IF s = <<>> THEN 0 ELSE 10 * DecValue(SubSeq(s, 1, Len(s) - 1)) + DigitVal(s[Len(s)])

HasSign(s) == s # <<>> /\ Head(s) \in {"+", "-"}
Unsigned(s) == IF HasSign(s) THEN Tail(s) ELSE s
SignOf(s) == IF s # <<>> /\ Head(s) = "-" THEN -1 ELSE 1

\* strconv.Atoi: optional sign, then one or more decimal digits, nothing else.
Atoi(s) ==
    LET d == Unsigned(s) IN
    IF d # <<>> /\ AllDigits(d)
    THEN [ok |-> TRUE, val |-> SignOf(s) * DecValue(d)]
    ELSE [ok |-> FALSE, val |-> 0]

DotAt(s) == {i \in 1..Len(s) : s[i] = "."}

RECURSIVE Pow10(_)
Pow10(n) == IF n = 0 THEN 1 ELSE 10 * Pow10(n - 1)

RECURSIVE StripZeros(_)
StripZeros(s) ==
    IF s # <<>> /\ s[Len(s)] = "0" THEN StripZeros(SubSeq(s, 1, Len(s) - 1)) ELSE s

\* strconv.ParseFloat(s, 64) on strings over digits, sign, "." and other
\* characters: optional sign, digits with at most one ".", at least one digit.
\* The value is the exact decimal mant / 10^scale with no trailing zero in the
\* fraction.
ParseFloat(s) ==
    LET d   == Unsigned(s)
        dot == DotAt(d)
        ip  == IF dot = {} THEN d ELSE SubSeq(d, 1, (CHOOSE i \in dot : TRUE) - 1)
        fp  == IF dot = {} THEN <<>>
               ELSE StripZeros(SubSeq(d, (CHOOSE i \in dot : TRUE) + 1, Len(d)))
        raw == IF dot = {} THEN <<>> ELSE SubSeq(d, (CHOOSE i \in dot : TRUE) + 1, Len(d))
    IN
    IF Cardinality(dot) <= 1 /\ AllDigits(ip) /\ AllDigits(raw) /\ Len(ip) + Len(raw) > 0
    THEN [ok |-> TRUE,
          val |-> [mant |-> SignOf(s) * (DecValue(ip) * Pow10(Len(fp)) + DecValue(fp)),
                   scale |-> Len(fp)]]
    ELSE [ok |-> FALSE, val |-> [mant |-> 0, scale |-> 0]]


\* ------------------------------------------------------------ source data
Str_user_id == <<"u", "s", "e", "r", "_", "i", "d">>
Str_email == <<"e", "m", "a", "i", "l">>
Str_monthly_income == <<"m", "o", "n", "t", "h", "l", "y", "_", "i", "n", "c", "o", "m", "e">>
Str_credit_score == <<"c", "r", "e", "d", "i", "t", "_", "s", "c", "o", "r", "e">>
Str_employment_status ==
    <<"e", "m", "p", "l", "o", "y", "m", "e", "n", "t", "_", "s", "t", "a", "t", "u", "s">>
Str_age == <<"a", "g", "e">>

\* validateColumns: requiredCols
requiredCols ==
    <<Str_user_id, Str_email, Str_monthly_income, Str_credit_score,
      Str_employment_status, Str_age>>

\* The header line of the scenario files of the specification.
StdHeader == requiredCols

Headers == {StdHeader}

\* A source line is what the tokenizer makes of it: its fields, or a parse
\* error when encoding/csv cannot split it (BadQuote: a bare quote in a field).
Line(fields) == [quoteErr |-> FALSE, fields |-> fields]
BadQuote == [quoteErr |-> TRUE, fields |-> <<>>]

U(n) == <<"U", n>>

\* U1,a,50, 7 ,e,30
RowU1 == Line(<<U("1"), <<"a">>, <<"5", "0">>, <<" ", "7", " ">>, <<"e">>, <<"3", "0">>>>)
\* U2,b,x,6,e,40: monthly_income is not a number
RowU2NaN == Line(<<U("2"), <<"b">>, <<"x">>, <<"6">>, <<"e">>, <<"4", "0">>>>)
\* " U1",b," 5.0 ",7,e,31: the key of RowU1 again, with other values
RowU1b ==
    Line(<<<<" ">> \o U("1"), <<"b">>, <<" ", "5", ".", "0", " ">>, <<"7">>, <<"e">>,
           <<"3", "1">>>>)

LinePool == {RowU1, RowU2NaN, BadQuote}

RECURSIVE SeqsUpTo(_, _)
SeqsUpTo(S, n) ==
    IF n = 0 THEN {<<>>}
    ELSE LET shorter == SeqsUpTo(S, n - 1)
         IN shorter \cup {Append(q, x) : q \in {r \in shorter : Len(r) = n - 1}, x \in S}

\* Five valid rows with five keys (the batch-size-2 scenario).
ValidRow(n) == Line(<<U(n), <<"a">>, <<"5", "0">>, <<"7">>, <<"e">>, <<"3", "0">>>>)
FiveValid == <<ValidRow("1"), ValidRow("2"), ValidRow("3"), ValidRow("4"), ValidRow("5")>>

\* U1 valid, U2 with monthly_income "notanumber" (the two-row scenario).
TwoRowScenario == <<RowU1, RowU2NaN>>

\* Three valid rows, the first two with one key.
DupKeys == <<RowU1, RowU1b, ValidRow("2")>>

ScenarioFiles == {FiveValid, DupKeys}

\* More rows than rowsChan holds: valid, invalid and malformed lines.
Backlog == <<RowU1, RowU2NaN, BadQuote, RowU1b, ValidRow("2")>>

\* ---- headers and rows for the column resolver and the record parser
\* A layout lists the columns of a file: k in 1..6 is requiredCols[k], 0 is a
\* column the job does not use.
IdentityLayout == <<1, 2, 3, 4, 5, 6>>
ValidLayouts ==
    {IdentityLayout,
     <<6, 5, 4, 3, 2, 1>>,
     <<0, 1, 2, 3, 4, 5, 6>>,
     <<3, 0, 1, 6, 2, 0, 5, 4>>,
     <<1, 2, 3, 4, 5, 6, 1>>}
\* IdentityLayout less one required column, and files without any
MissingLayouts ==
    {SelectSeq(IdentityLayout, LAMBDA k : k # m) : m \in 1..6}
        \cup {<<0>>, <<0, 2, 0, 4, 6>>}
Layouts == ValidLayouts \cup MissingLayouts

ExtraCol == <<"n", "o", "t", "e", "s">>
ExtraVal == <<"z">>

UpperChar(c) ==
    CASE c = "a" -> "A" [] c = "c" -> "C" [] c = "d" -> "D" [] c = "e" -> "E"
      [] c = "g" -> "G" [] c = "h" -> "H" [] c = "i" -> "I" [] c = "l" -> "L"
      [] c = "m" -> "M" [] c = "n" -> "N" [] c = "o" -> "O" [] c = "p" -> "P"
      [] c = "r" -> "R" [] c = "s" -> "S" [] c = "t" -> "T" [] c = "u" -> "U"
      [] c = "y" -> "Y"
      [] OTHER -> c

\* How a file spells a column name.
Styles == {"plain", "upper", "padded", "mixed"}
Spell(name, style) ==
    CASE style = "plain" -> name
      [] style = "upper" -> [i \in 1..Len(name) |-> UpperChar(name[i])]
      [] style = "padded" -> <<" ">> \o name \o <<"\t", " ">>
      [] style = "mixed" ->
            <<"\t">> \o [i \in 1..Len(name) |-> IF i % 2 = 1 THEN UpperChar(name[i]) ELSE name[i]]

ColName(k) == IF k = 0 THEN ExtraCol ELSE requiredCols[k]
HeaderOf(layout, style) == [i \in 1..Len(layout) |-> Spell(ColName(layout[i]), style)]
HeaderPool == {HeaderOf(l, st) : l \in Layouts, st \in Styles}

\* Field texts with what strconv.ParseFloat(strings.TrimSpace(.), 64),
\* strconv.Atoi(strings.TrimSpace(.)) and strings.TrimSpace(.) return for
\* them (Go 1.x library documentation).
FloatCases ==
    {[raw |-> <<"5", "0">>, ok |-> TRUE, val |-> [mant |-> 50, scale |-> 0]],
     [raw |-> <<" ", "5", ".", "0", " ">>, ok |-> TRUE, val |-> [mant |-> 5, scale |-> 0]],
     [raw |-> <<"-", "1", ".", "5">>, ok |-> TRUE, val |-> [mant |-> -15, scale |-> 1]],
     [raw |-> <<"+", "7">>, ok |-> TRUE, val |-> [mant |-> 7, scale |-> 0]],
     [raw |-> <<".", "2", "5">>, ok |-> TRUE, val |-> [mant |-> 25, scale |-> 2]],
     [raw |-> <<"5", ".">>, ok |-> TRUE, val |-> [mant |-> 5, scale |-> 0]],
     [raw |-> <<"x">>, ok |-> FALSE, val |-> [mant |-> 0, scale |-> 0]],
     [raw |-> <<>>, ok |-> FALSE, val |-> [mant |-> 0, scale |-> 0]],
     [raw |-> <<" ">>, ok |-> FALSE, val |-> [mant |-> 0, scale |-> 0]],
     [raw |-> <<".">>, ok |-> FALSE, val |-> [mant |-> 0, scale |-> 0]],
     [raw |-> <<"1", ".", "2", ".", "3">>, ok |-> FALSE, val |-> [mant |-> 0, scale |-> 0]],
     [raw |-> <<"5", " ", "0">>, ok |-> FALSE, val |-> [mant |-> 0, scale |-> 0]]}

IntCases ==
    {[raw |-> <<"7">>, ok |-> TRUE, val |-> 7],
     [raw |-> <<" ", "7", " ">>, ok |-> TRUE, val |-> 7],
     [raw |-> <<"3", "0">>, ok |-> TRUE, val |-> 30],
     [raw |-> <<"\t", "-", "3">>, ok |-> TRUE, val |-> -3],
     [raw |-> <<"+", "4">>, ok |-> TRUE, val |-> 4],
     [raw |-> <<"0", "7">>, ok |-> TRUE, val |-> 7],
     [raw |-> <<"7", ".", "0">>, ok |-> FALSE, val |-> 0],
     [raw |-> <<>>, ok |-> FALSE, val |-> 0],
     [raw |-> <<"x">>, ok |-> FALSE, val |-> 0],
     [raw |-> <<"-">>, ok |-> FALSE, val |-> 0],
     [raw |-> <<"1", " ", "2">>, ok |-> FALSE, val |-> 0]}

StrCases ==
    {[raw |-> <<"U", "1">>, trimmed |-> <<"U", "1">>],
     [raw |-> <<"a">>, trimmed |-> <<"a">>],
     [raw |-> <<"e">>, trimmed |-> <<"e">>],
     [raw |-> <<" ", "U", "1", "\t">>, trimmed |-> <<"U", "1">>],
     [raw |-> <<"U", " ", "1", " ">>, trimmed |-> <<"U", " ", "1">>],
     [raw |-> <<"A">>, trimmed |-> <<"A">>],
     [raw |-> <<" ", "\t">>, trimmed |-> <<>>],
     [raw |-> <<>>, trimmed |-> <<>>]}

\* The texts of the six required fields of one line, in the order of
\* requiredCols.
BaseVals == <<U("1"), <<"a">>, <<"5", "0">>, <<"7">>, <<"e">>, <<"3", "0">>>>
BadVals == [BaseVals EXCEPT ![3] = <<"x">>]
ValsPool ==
    {[BaseVals EXCEPT ![k] = c.raw] : k \in {1, 2, 5}, c \in StrCases}
        \cup {[BaseVals EXCEPT ![3] = c.raw] : c \in FloatCases}
        \cup {[BaseVals EXCEPT ![k] = c.raw] : k \in {4, 6}, c \in IntCases}

\* The line of a file of the given layout that holds the given texts, and the
\* same line cut short by one field.
RowOf(layout, vals) ==
    Line([i \in 1..Len(layout) |-> IF layout[i] = 0 THEN ExtraVal ELSE vals[layout[i]]])
ShortOf(line) == Line(SubSeq(line.fields, 1, Len(line.fields) - 1))

\* The users table as database/init.sql creates it, and as the bulk statement
\* of bulkInsert addresses it.
InitSqlColumns ==
    {"user_id", "email", "monthly_income", "credit_score", "employment_status", "age",
     "created_at"}
ContractColumns == InitSqlColumns \cup {"updated_at"}
UpsertColumns ==
    {"user_id", "email", "monthly_income", "credit_score", "employment_status", "age",
     "updated_at"}

\* ----------------------------------------------------- pure functions
\* encoding/csv Reader.Read on a data line, FieldsPerRecord fixed by the header
ReadOKAnyCount(line, nfields) == ~line.quoteErr

ReadOK(line, nfields) == ~line.quoteErr /\ Len(line.fields) = nfields

\* createColumnIndex: lower-cased, trimmed header text -> zero-based position;
\* a later column of the same name overwrites an earlier one.
Normalized(col) == ToLower(TrimSpace(col))

\* as createColumnIndex, without strings.TrimSpace
createColumnIndexNoTrim(hdr) ==
    [name \in {ToLower(hdr[i]) : i \in 1..Len(hdr)} |->
        (CHOOSE i \in 1..Len(hdr) :
            /\ ToLower(hdr[i]) = name
            /\ \A j \in 1..Len(hdr) : ToLower(hdr[j]) = name => j <= i) - 1]

createColumnIndex(hdr) ==
    [name \in {Normalized(hdr[i]) : i \in 1..Len(hdr)} |->
        (CHOOSE i \in 1..Len(hdr) :
            /\ Normalized(hdr[i]) = name
            /\ \A j \in 1..Len(hdr) : Normalized(hdr[j]) = name => j <= i) - 1]

\* validateColumns: nil (TRUE) iff every required column is in the index
validateColumns(idx) ==
    \A k \in 1..Len(requiredCols) : requiredCols[k] \in DOMAIN idx

\* record[colIndex[name]]: a name that is not in the map reads as index 0
Field(record, idx, name) == record[(IF name \in DOMAIN idx THEN idx[name] ELSE 0) + 1]

NoUser ==
    [UserID |-> <<>>, Email |-> <<>>, MonthlyIncome |-> [mant |-> 0, scale |-> 0],
     CreditScore |-> 0, EmploymentStatus |-> <<>>, Age |-> 0]

\* as parseUserRecord, with the error of the monthly_income parse ignored
parseUserRecordIgnoreErr(record, idx) ==
    LET monthlyIncome == ParseFloat(TrimSpace(Field(record, idx, Str_monthly_income)))
        creditScore   == Atoi(TrimSpace(Field(record, idx, Str_credit_score)))
        age           == Atoi(TrimSpace(Field(record, idx, Str_age)))
    IN
    IF ~creditScore.ok THEN [ok |-> FALSE, user |-> NoUser]
    ELSE IF ~age.ok THEN [ok |-> FALSE, user |-> NoUser]
    ELSE [ok |-> TRUE,
          user |-> [UserID |-> TrimSpace(Field(record, idx, Str_user_id)),
                    Email |-> TrimSpace(Field(record, idx, Str_email)),
                    MonthlyIncome |-> monthlyIncome.val,
                    CreditScore |-> creditScore.val,
                    EmploymentStatus |-> TrimSpace(Field(record, idx, Str_employment_status)),
                    Age |-> age.val]]

\* as parseUserRecord, with the three string fields taken as they are
parseUserRecordNoTrim(record, idx) ==
    LET monthlyIncome == ParseFloat(TrimSpace(Field(record, idx, Str_monthly_income)))
        creditScore   == Atoi(TrimSpace(Field(record, idx, Str_credit_score)))
        age           == Atoi(TrimSpace(Field(record, idx, Str_age)))
    IN
    IF ~monthlyIncome.ok THEN [ok |-> FALSE, user |-> NoUser]
    ELSE IF ~creditScore.ok THEN [ok |-> FALSE, user |-> NoUser]
    ELSE IF ~age.ok THEN [ok |-> FALSE, user |-> NoUser]
    ELSE [ok |-> TRUE,
          user |-> [UserID |-> Field(record, idx, Str_user_id),
                    Email |-> Field(record, idx, Str_email),
                    MonthlyIncome |-> monthlyIncome.val,
                    CreditScore |-> creditScore.val,
                    EmploymentStatus |-> Field(record, idx, Str_employment_status),
                    Age |-> age.val]]

\* parseUserRecord: (User, err); err # nil is ok = FALSE with the zero User
parseUserRecord(record, idx) ==
    LET monthlyIncome == ParseFloat(TrimSpace(Field(record, idx, Str_monthly_income)))
        creditScore   == Atoi(TrimSpace(Field(record, idx, Str_credit_score)))
        age           == Atoi(TrimSpace(Field(record, idx, Str_age)))
    IN
    IF ~monthlyIncome.ok THEN [ok |-> FALSE, user |-> NoUser]
    ELSE IF ~creditScore.ok THEN [ok |-> FALSE, user |-> NoUser]
    ELSE IF ~age.ok THEN [ok |-> FALSE, user |-> NoUser]
    ELSE [ok |-> TRUE,
          user |-> [UserID |-> TrimSpace(Field(record, idx, Str_user_id)),
                    Email |-> TrimSpace(Field(record, idx, Str_email)),
                    MonthlyIncome |-> monthlyIncome.val,
                    CreditScore |-> creditScore.val,
                    EmploymentStatus |-> TrimSpace(Field(record, idx, Str_employment_status)),
                    Age |-> age.val]]

\* ------------------------------------------------------------------ state
VARIABLES
    events,         \* s3Event.Records: the objects of the invocation, in order
    ev,             \* index of the record the handler is at
    pcHandler,      \* handler of process-csv
    handlerResult,  \* what handler returned
    notif,          \* the `go func` of each ingested record: [count, state]
    dbAfter,        \* history: [table, envFailed] when each ingestion returned a count
    header,         \* first line of the object
    src,            \* the data lines of the object, in stream order
    faulty,         \* reads of the object body may fail with an I/O error
    numWorkers,     \* NumWorkers of this run
    batchSize,      \* BatchSize of this run
    tableColumns,   \* columns of the users table of the database
    cancelled,      \* ctx.Done() is closed
    pushedAtCancel, \* history: records sent on usersChan before ctx was done
    pcMain,         \* processCSVStreaming
    result,         \* what processCSVStreaming returned
    colIndex,
    pcReader,       \* the reader goroutine
    pos,            \* next line of src the csv reader returns
    lineNum,
    rowsChan, rowsCloses,
    pcWorker, user, \* parseWorker goroutines and the User each holds
    wg,             \* sync.WaitGroup counter
    usersChan, usersCloses,
    errorsClosed,
    pcSup,          \* the goroutine that waits for the workers
    pcIns,          \* batchInserter
    batch, totalInserted, final,
    txOpen,         \* transactions begun and neither committed nor rolled back
    db,             \* rows of the users table, by user_id
    createdAt,      \* column created_at of those rows
    enq,            \* history: lines sent on rowsChan, in order
    deq,            \* history: lines received from rowsChan, in order
    flushes         \* history: bulkInsert calls, [lines, outcome]

vars ==
    <<events, ev, pcHandler, handlerResult, notif, dbAfter, faulty,
      header, src, numWorkers, batchSize, tableColumns, cancelled, pushedAtCancel,
      pcMain, result,
      colIndex, pcReader, pos, lineNum, rowsChan, rowsCloses, pcWorker, user, wg,
      usersChan, usersCloses, errorsClosed, pcSup, pcIns, batch, totalInserted, final,
      txOpen, db, createdAt, enq, deq, flushes>>

inputVars == <<header, src, numWorkers, batchSize, tableColumns>>
handlerVars == <<events, ev, pcHandler, handlerResult, notif, dbAfter, faulty>>
readerVars == <<pcReader, pos, lineNum, rowsCloses, enq>>
workerVars == <<pcWorker, user, wg, deq>>
supVars == <<usersCloses, errorsClosed, pcSup>>
insVars == <<pcIns, batch, totalInserted, final, txOpen, db, createdAt, flushes>>

Workers == 1..MaxWorkers

NoResult == [count |-> 0, err |-> "none"]

\* One record of the S3 event: the object it names. The reads of its body
\* may fail with an I/O error (faulty); on a sticky body every read after a
\* failed one fails too.
Event(h, s, f) == [header |-> h, src |-> s, faulty |-> f, sticky |-> FALSE]
StickyEvent(h, s) == [header |-> h, src |-> s, faulty |-> TRUE, sticky |-> TRUE]

\* The locals of one call of processCSVStreaming, before its first statement;
\* pc is "start" for a call to come and "none" when there is none.
Locals(pc) ==
    /\ pcMain = pc
    /\ result = NoResult
    /\ colIndex = <<>>
    /\ pcReader = "idle" /\ pos = 1 /\ lineNum = 1
    /\ rowsChan = <<>> /\ rowsCloses = 0
    /\ pcWorker = [w \in Workers |-> "idle"]
    /\ user = [w \in Workers |-> [line |-> 0, user |-> NoUser]]
    /\ wg = 0
    /\ usersChan = <<>> /\ usersCloses = 0
    /\ errorsClosed = FALSE
    /\ pcSup = "idle"
    /\ pcIns = "idle"
    /\ batch = <<>> /\ totalInserted = 0 /\ final = FALSE
    /\ txOpen = 0
    /\ enq = <<>> /\ deq = <<>> /\ flushes = <<>>

\* The same locals after the step that ends one call: of the next call, or
\* of none.
Reset(pc) ==
    /\ pcMain' = pc
    /\ result' = NoResult
    /\ colIndex' = <<>>
    /\ pcReader' = "idle" /\ pos' = 1 /\ lineNum' = 1
    /\ rowsChan' = <<>> /\ rowsCloses' = 0
    /\ pcWorker' = [w \in Workers |-> "idle"]
    /\ user' = [w \in Workers |-> [line |-> 0, user |-> NoUser]]
    /\ wg' = 0
    /\ usersChan' = <<>> /\ usersCloses' = 0
    /\ errorsClosed' = FALSE
    /\ pcSup' = "idle"
    /\ pcIns' = "idle"
    /\ batch' = <<>> /\ totalInserted' = 0 /\ final' = FALSE
    /\ txOpen' = 0
    /\ enq' = <<>> /\ deq' = <<>> /\ flushes' = <<>>

\* The invocation of handler on `events`, at the first record, on an empty
\* users table and with a live context.
Start ==
    /\ header = events[1].header /\ src = events[1].src /\ faulty = events[1].faulty
    /\ ev = 1
    /\ pcHandler = "run"
    /\ handlerResult = "none"
    /\ notif = <<>>
    /\ dbAfter = <<>>
    /\ cancelled = FALSE
    /\ pushedAtCancel = 0
    /\ db = <<>>
    /\ createdAt = <<>>
    /\ Locals("start")

\* One object per invocation: every file of at most MaxRows lines over
\* LinePool, with one worker and with MaxWorkers, with batch size 1 and
\* MaxBatch, against the table of init.sql and the table of the destination
\* contract; the scenario files, with one and two workers and batch size 2
\* against the table of the contract; and the two-row scenario on a body whose
\* reads may fail.
Init ==
    /\ \/ /\ \E h \in Headers, s \in SeqsUpTo(LinePool, MaxRows) :
                events = <<Event(h, s, FALSE)>>
          /\ numWorkers \in {1, MaxWorkers}
          /\ batchSize \in {1, MaxBatch}
          /\ tableColumns \in {InitSqlColumns, ContractColumns}
       \/ /\ \E h \in Headers, s \in ScenarioFiles : events = <<Event(h, s, FALSE)>>
          /\ numWorkers \in {1, 2}
          /\ batchSize = 2
          /\ tableColumns = ContractColumns
       \/ /\ events = <<Event(StdHeader, TwoRowScenario, TRUE)>>
          /\ numWorkers \in {1, 2}
          /\ batchSize = 2
          /\ tableColumns = ContractColumns
    /\ Start

\* ------------------------------------------------- processCSVStreaming
\* What precedes the header check: session.NewSession, svc.GetObject,
\* createDBPool (sql.Open and db.Ping) and the first reader.Read(), each of
\* which returns (0, err) on failure.
PreOutcomes == {"ok", "session", "s3", "dbpool", "header"}

PreError(pre) ==
    CASE pre = "session" -> "failed to create AWS session"
      [] pre = "s3" -> "failed to get object from S3"
      [] pre = "dbpool" -> "failed to connect to database"
      [] pre = "header" -> "failed to read CSV header"

\* as MainStart, with the `go` statements made whatever validateColumns
\* returned
MainStartUnchecked ==
    /\ pcHandler = "run"
    /\ pcMain = "start"
    /\ \E pre \in PreOutcomes :
        IF pre # "ok"
        THEN /\ pcMain' = "returned"
             /\ result' = [count |-> 0, err |-> PreError(pre)]
             /\ UNCHANGED <<colIndex, pcReader, pcWorker, wg, pcSup, pcIns>>
        ELSE /\ colIndex' = createColumnIndex(header)
             /\ pcWorker' = [w \in Workers |-> IF w <= numWorkers THEN "recv" ELSE "idle"]
             /\ wg' = numWorkers
             /\ pcIns' = "recv"
             /\ pcReader' = "run"
             /\ pcSup' = "wait"
             /\ pcMain' = "rangeErrors"
             /\ UNCHANGED result
    /\ UNCHANGED <<inputVars, handlerVars, cancelled, pushedAtCancel, pos, lineNum, rowsChan,
                   rowsCloses, user, usersChan, usersCloses, errorsClosed, batch,
                   totalInserted, final, txOpen, db, createdAt, enq, deq, flushes>>

\* processCSVStreaming up to its `go` statements: the calls above, then
\* createColumnIndex and validateColumns, then the four `go` statements
\* (wg.Add(1) before each worker).
MainStart ==
    /\ pcHandler = "run"
    /\ pcMain = "start"
    /\ \E pre \in PreOutcomes :
        LET idx == createColumnIndex(header) IN
        IF pre # "ok"
        THEN /\ pcMain' = "returned"
             /\ result' = [count |-> 0, err |-> PreError(pre)]
             /\ UNCHANGED <<colIndex, pcReader, pcWorker, wg, pcSup, pcIns>>
        ELSE IF ~validateColumns(idx)
        THEN /\ pcMain' = "returned"
             /\ result' = [count |-> 0, err |-> "missing required column"]
             /\ UNCHANGED <<colIndex, pcReader, pcWorker, wg, pcSup, pcIns>>
        ELSE /\ colIndex' = idx
             /\ pcWorker' = [w \in Workers |-> IF w <= numWorkers THEN "recv" ELSE "idle"]
             /\ wg' = numWorkers
             /\ pcIns' = "recv"
             /\ pcReader' = "run"
             /\ pcSup' = "wait"
             /\ pcMain' = "rangeErrors"
             /\ UNCHANGED result
    /\ UNCHANGED <<inputVars, handlerVars, cancelled, pushedAtCancel, pos, lineNum, rowsChan,
                   rowsCloses, user, usersChan, usersCloses, errorsClosed, batch,
                   totalInserted, final, txOpen, db, createdAt, enq, deq, flushes>>

\* `for err := range errorsChan` ends when errorsChan is closed (nothing is
\* ever sent on it).
MainErrorsClosed ==
    /\ pcMain = "rangeErrors"
    /\ errorsClosed
    /\ pcMain' = "recvDone"
    /\ UNCHANGED <<inputVars, handlerVars, cancelled, pushedAtCancel, result, colIndex, readerVars, rowsChan,
                   workerVars, usersChan, supVars, insVars>>

\* as MainRecvDone, with an error returned when a bulkInsert failed
MainRecvDoneFlushError ==
    /\ pcMain = "recvDone"
    /\ pcIns = "send"
    /\ result' = [count |-> totalInserted,
                  err |-> IF \E k \in 1..Len(flushes) : flushes[k].outcome # "ok"
                          THEN "failed to insert batch" ELSE "nil"]
    /\ pcMain' = "returned"
    /\ pcIns' = "done"
    /\ UNCHANGED <<inputVars, handlerVars, cancelled, pushedAtCancel, colIndex, readerVars, rowsChan, workerVars,
                   usersChan, supVars, batch, totalInserted, final, txOpen, db, createdAt, flushes>>

\* insertDone is unbuffered: `done <- totalInserted` of batchInserter and
\* `totalInserted := <-insertDone` happen together; then return.
MainRecvDone ==
    /\ pcMain = "recvDone"
    /\ pcIns = "send"
    /\ result' = [count |-> totalInserted, err |-> "nil"]
    /\ pcMain' = "returned"
    /\ pcIns' = "done"
    /\ UNCHANGED <<inputVars, handlerVars, cancelled, pushedAtCancel, colIndex, readerVars, rowsChan, workerVars,
                   usersChan, supVars, batch, totalInserted, final, txOpen, db, createdAt, flushes>>

\* number of records sent on usersChan so far: flushed, in the batch or queued
RECURSIVE Flushed(_)
Flushed(fs) == IF fs = <<>> THEN 0 ELSE Len(Head(fs).lines) + Flushed(Tail(fs))
PushedNow == Flushed(flushes) + Len(batch) + Len(usersChan)

\* The context of the invocation is cancelled (deadline or caller abort).
Cancel ==
    /\ pcHandler = "run"
    /\ ~cancelled
    /\ pcMain # "returned"
    /\ cancelled' = TRUE
    /\ pushedAtCancel' = PushedNow
    /\ UNCHANGED <<inputVars, handlerVars, pcMain, result, colIndex, readerVars, rowsChan,
                   workerVars, usersChan, supVars, insVars>>

\* ------------------------------------------------------------ reader
AtEOF == pos > Len(src)

\* a read of a sticky body has failed: every later reader.Read() returns the
\* error again
Broken == events[ev].sticky /\ lineNum > pos

\* reader.Read() returns io.EOF: break, close(rowsChan)
ReaderEOF ==
    /\ pcReader = "run"
    /\ ~Broken
    /\ AtEOF
    /\ rowsCloses' = rowsCloses + 1
    /\ pcReader' = "done"
    /\ UNCHANGED <<inputVars, handlerVars, cancelled, pushedAtCancel, pcMain, result, colIndex, pos, lineNum, enq,
                   rowsChan, workerVars, usersChan, supVars, insVars>>

\* as ReaderSkip, without the lineNum++ before the continue
ReaderSkipNoCount ==
    /\ pcReader = "run"
    /\ ~Broken
    /\ ~AtEOF
    /\ ~ReadOK(src[pos], Len(header))
    /\ pos' = pos + 1
    /\ UNCHANGED <<inputVars, handlerVars, cancelled, pushedAtCancel, pcMain, result, colIndex, pcReader, rowsCloses,
                   lineNum, enq, rowsChan, workerVars, usersChan, supVars, insVars>>

\* reader.Read() returns another error: log, lineNum++, continue
ReaderSkip ==
    /\ pcReader = "run"
    /\ ~Broken
    /\ ~AtEOF
    /\ ~ReadOK(src[pos], Len(header))
    /\ pos' = pos + 1
    /\ lineNum' = lineNum + 1
    /\ UNCHANGED <<inputVars, handlerVars, cancelled, pushedAtCancel, pcMain, result, colIndex, pcReader, rowsCloses,
                   enq, rowsChan, workerVars, usersChan, supVars, insVars>>

\* reader.Read() returns an I/O error of the object body: handled as any
\* error that is not io.EOF (log, lineNum++, continue), and the next
\* reader.Read() is made. lineNum - pos counts these reads: at most
\* MaxReadErrors of them on a body that recovers; on a sticky body they go on,
\* and lineNum, which only the log line reads, is kept within
\* MaxReadErrors + 1 of pos.
ReaderIOError ==
    /\ pcReader = "run"
    /\ faulty
    /\ IF Broken
       THEN lineNum' = pos + 1 + ((lineNum - pos) % (MaxReadErrors + 1))
       ELSE /\ lineNum - pos < MaxReadErrors
            /\ lineNum' = lineNum + 1
    /\ UNCHANGED <<inputVars, handlerVars, cancelled, pushedAtCancel, pcMain, result, colIndex,
                   pcReader, pos, rowsCloses, enq, rowsChan, workerVars, usersChan, supVars,
                   insVars>>

\* as ReaderSend, with a send that gives up on a full rowsChan
ReaderSendOrDrop ==
    /\ pcReader = "run"
    /\ ~Broken
    /\ ~AtEOF
    /\ ReadOK(src[pos], Len(header))
    /\ rowsCloses = 0
    /\ IF Len(rowsChan) < ChannelBuffer
       THEN /\ rowsChan' = Append(rowsChan, [line |-> pos, record |-> src[pos].fields])
            /\ enq' = Append(enq, pos)
       ELSE UNCHANGED <<rowsChan, enq>>
    /\ pos' = pos + 1
    /\ lineNum' = lineNum + 1
    /\ UNCHANGED <<inputVars, handlerVars, cancelled, pushedAtCancel, pcMain, result, colIndex, pcReader, rowsCloses,
                   workerVars, usersChan, supVars, insVars>>

\* select case rowsChan <- record: ready while the buffer has room
ReaderSend ==
    /\ pcReader = "run"
    /\ ~Broken
    /\ ~AtEOF
    /\ ReadOK(src[pos], Len(header))
    /\ rowsCloses = 0
    /\ Len(rowsChan) < ChannelBuffer
    /\ rowsChan' = Append(rowsChan, [line |-> pos, record |-> src[pos].fields])
    /\ enq' = Append(enq, pos)
    /\ pos' = pos + 1
    /\ lineNum' = lineNum + 1
    /\ UNCHANGED <<inputVars, handlerVars, cancelled, pushedAtCancel, pcMain, result, colIndex, pcReader, rowsCloses,
                   workerVars, usersChan, supVars, insVars>>

\* as ReaderCancel, with a break in place of the return: the close after the
\* loop follows the close of the case
ReaderCancelBreak ==
    /\ pcReader = "run"
    /\ ~Broken
    /\ ~AtEOF
    /\ ReadOK(src[pos], Len(header))
    /\ cancelled
    /\ rowsCloses' = rowsCloses + 2
    /\ pos' = pos + 1
    /\ pcReader' = "done"
    /\ UNCHANGED <<inputVars, handlerVars, cancelled, pushedAtCancel, pcMain, result, colIndex, lineNum, enq,
                   rowsChan, workerVars, usersChan, supVars, insVars>>

\* select case <-ctx.Done(): close(rowsChan); return
ReaderCancel ==
    /\ pcReader = "run"
    /\ ~Broken
    /\ ~AtEOF
    /\ ReadOK(src[pos], Len(header))
    /\ cancelled
    /\ rowsCloses' = rowsCloses + 1
    /\ pos' = pos + 1
    /\ pcReader' = "done"
    /\ UNCHANGED <<inputVars, handlerVars, cancelled, pushedAtCancel, pcMain, result, colIndex, lineNum, enq,
                   rowsChan, workerVars, usersChan, supVars, insVars>>

\* ------------------------------------------------------- parseWorker
\* record[colIndex[name]] is within the row for each required name (an index
\* out of range is a run-time panic)
InRange(record, idx) ==
    \A k \in 1..Len(requiredCols) :
        (IF requiredCols[k] \in DOMAIN idx THEN idx[requiredCols[k]] ELSE 0) + 1
            \in 1..Len(record)

\* as WorkerRecv, with the record of a row that failed to parse sent on as
\* parseUserRecord left it
WorkerRecvKeepFailed(w) ==
    /\ pcWorker[w] = "recv"
    /\ rowsChan # <<>>
    /\ LET row == Head(rowsChan)
           parsed == parseUserRecord(row.record, colIndex)
       IN /\ rowsChan' = Tail(rowsChan)
          /\ deq' = Append(deq, row.line)
          /\ user' = [user EXCEPT ![w] = [line |-> row.line, user |-> parsed.user]]
          /\ pcWorker' = [pcWorker EXCEPT ![w] = "send"]
    /\ UNCHANGED <<inputVars, handlerVars, cancelled, pushedAtCancel, pcMain, result, colIndex, readerVars, wg,
                   usersChan, supVars, insVars>>

\* `for record := range rowsChan`: one row received and parsed; an invalid
\* record is skipped (continue), a valid one is held for `usersChan <- user`.
WorkerRecv(w) ==
    /\ pcWorker[w] = "recv"
    /\ rowsChan # <<>>
    /\ LET row == Head(rowsChan)
           parsed == parseUserRecord(row.record, colIndex)
       IN /\ rowsChan' = Tail(rowsChan)
          /\ deq' = Append(deq, row.line)
          /\ IF ~InRange(row.record, colIndex)
             THEN /\ pcWorker' = [pcWorker EXCEPT ![w] = "panic"]
                  /\ UNCHANGED user
             ELSE IF parsed.ok
             THEN /\ user' = [user EXCEPT ![w] = [line |-> row.line, user |-> parsed.user]]
                  /\ pcWorker' = [pcWorker EXCEPT ![w] = "send"]
             ELSE UNCHANGED <<user, pcWorker>>
    /\ UNCHANGED <<inputVars, handlerVars, cancelled, pushedAtCancel, pcMain, result, colIndex, readerVars, wg,
                   usersChan, supVars, insVars>>

\* as WorkerSend, on a usersChan without a capacity
WorkerSendUnbounded(w) ==
    /\ pcWorker[w] = "send"
    /\ IF usersCloses > 0
       THEN /\ pcWorker' = [pcWorker EXCEPT ![w] = "panic"]
            /\ UNCHANGED usersChan
       ELSE /\ usersChan' = Append(usersChan, user[w])
            /\ pcWorker' = [pcWorker EXCEPT ![w] = "recv"]
    /\ UNCHANGED <<inputVars, handlerVars, cancelled, pushedAtCancel, pcMain, result, colIndex, readerVars, rowsChan,
                   user, wg, deq, supVars, insVars>>

\* `usersChan <- user`: blocks while the buffer is full, panics on a closed
\* channel.
WorkerSend(w) ==
    /\ pcWorker[w] = "send"
    /\ IF usersCloses > 0
       THEN /\ pcWorker' = [pcWorker EXCEPT ![w] = "panic"]
            /\ UNCHANGED usersChan
       ELSE /\ Len(usersChan) < ChannelBuffer
            /\ usersChan' = Append(usersChan, user[w])
            /\ pcWorker' = [pcWorker EXCEPT ![w] = "recv"]
    /\ UNCHANGED <<inputVars, handlerVars, cancelled, pushedAtCancel, pcMain, result, colIndex, readerVars, rowsChan,
                   user, wg, deq, supVars, insVars>>

\* as WorkerExit, without the deferred wg.Done()
WorkerExitNoDone(w) ==
    /\ pcWorker[w] = "recv"
    /\ rowsChan = <<>>
    /\ rowsCloses > 0
    /\ pcWorker' = [pcWorker EXCEPT ![w] = "done"]
    /\ UNCHANGED <<inputVars, handlerVars, cancelled, pushedAtCancel, pcMain, result, colIndex,
                   readerVars, rowsChan, user, wg, deq, usersChan, supVars, insVars>>

\* range over a closed and drained rowsChan ends; deferred wg.Done()
WorkerExit(w) ==
    /\ pcWorker[w] = "recv"
    /\ rowsChan = <<>>
    /\ rowsCloses > 0
    /\ pcWorker' = [pcWorker EXCEPT ![w] = "done"]
    /\ wg' = wg - 1
    /\ UNCHANGED <<inputVars, handlerVars, cancelled, pushedAtCancel, pcMain, result, colIndex, readerVars, rowsChan,
                   user, deq, usersChan, supVars, insVars>>

\* --------------------------------------------------------- supervisor
\* as SupCloseUsers, with the wait for one worker only
SupCloseUsersEarly ==
    /\ pcSup = "wait"
    /\ wg < numWorkers
    /\ usersCloses' = usersCloses + 1
    /\ pcSup' = "closeErrors"
    /\ UNCHANGED <<inputVars, handlerVars, cancelled, pushedAtCancel, pcMain, result, colIndex, readerVars, rowsChan,
                   workerVars, usersChan, errorsClosed, insVars>>

\* wg.Wait() returns when the counter is zero; close(usersChan)
SupCloseUsers ==
    /\ pcSup = "wait"
    /\ wg = 0
    /\ usersCloses' = usersCloses + 1
    /\ pcSup' = "closeErrors"
    /\ UNCHANGED <<inputVars, handlerVars, cancelled, pushedAtCancel, pcMain, result, colIndex, readerVars, rowsChan,
                   workerVars, usersChan, errorsClosed, insVars>>

\* close(errorsChan)
SupCloseErrors ==
    /\ pcSup = "closeErrors"
    /\ errorsClosed' = TRUE
    /\ pcSup' = "done"
    /\ UNCHANGED <<inputVars, handlerVars, cancelled, pushedAtCancel, pcMain, result, colIndex, readerVars, rowsChan,
                   workerVars, usersChan, usersCloses, insVars>>

\* ------------------------------------------------------- batchInserter
Keys(users) == {users[i].user.UserID : i \in 1..Len(users)}
Lines(users) == [i \in 1..Len(users) |-> users[i].line]

\* as Upsert, with the rows of the statement replacing the table
UpsertReplace(table, users) ==
    [k \in Keys(users) |->
        users[CHOOSE i \in 1..Len(users) : users[i].user.UserID = k].user]

\* INSERT ... ON CONFLICT (user_id) DO UPDATE SET ...: the row of every key
\* of the statement becomes the incoming row, the other rows stay.
Upsert(table, users) ==
    [k \in (DOMAIN table) \cup Keys(users) |->
        IF k \in Keys(users)
        THEN users[CHOOSE i \in 1..Len(users) : users[i].user.UserID = k].user
        ELSE table[k]]

\* CURRENT_TIMESTAMP of a statement: the time of its transaction, as the
\* number of the ingestion and of the bulkInsert call in it
Now == <<ev, Len(flushes) + 1>>

\* as CreatedAt, with created_at set by the update of a conflicting row too
CreatedAtTouched(stamps, users, now) ==
    [k \in (DOMAIN stamps) \cup Keys(users) |->
        IF k \in Keys(users) THEN now ELSE stamps[k]]

\* created_at TIMESTAMP DEFAULT CURRENT_TIMESTAMP: set when the row is
\* inserted; the SET list of DO UPDATE does not name it
CreatedAt(stamps, users, now) ==
    [k \in (DOMAIN stamps) \cup Keys(users) |->
        IF k \in DOMAIN stamps THEN stamps[k] ELSE now]

\* as InserterRecv, with the batch flushed when it exceeds BatchSize
InserterRecvLate ==
    /\ pcIns = "recv"
    /\ usersChan # <<>>
    /\ usersChan' = Tail(usersChan)
    /\ batch' = Append(batch, Head(usersChan))
    /\ pcIns' = IF Len(batch) + 1 > batchSize THEN "begin" ELSE "recv"
    /\ UNCHANGED <<inputVars, handlerVars, cancelled, pushedAtCancel, pcMain, result, colIndex, readerVars, rowsChan,
                   workerVars, supVars, totalInserted, final, txOpen, db, createdAt, flushes>>

\* as InserterRecv, with the record put at the front of the batch
InserterRecvFront ==
    /\ pcIns = "recv"
    /\ usersChan # <<>>
    /\ usersChan' = Tail(usersChan)
    /\ batch' = <<Head(usersChan)>> \o batch
    /\ pcIns' = IF Len(batch) + 1 >= batchSize THEN "begin" ELSE "recv"
    /\ UNCHANGED <<inputVars, handlerVars, cancelled, pushedAtCancel, pcMain, result, colIndex, readerVars, rowsChan,
                   workerVars, supVars, totalInserted, final, txOpen, db, createdAt, flushes>>

\* `for user := range usersChan`: append; insertBatch() when the batch is full
InserterRecv ==
    /\ pcIns = "recv"
    /\ usersChan # <<>>
    /\ usersChan' = Tail(usersChan)
    /\ batch' = Append(batch, Head(usersChan))
    /\ pcIns' = IF Len(batch) + 1 >= batchSize THEN "begin" ELSE "recv"
    /\ UNCHANGED <<inputVars, handlerVars, cancelled, pushedAtCancel, pcMain, result, colIndex, readerVars, rowsChan,
                   workerVars, supVars, totalInserted, final, txOpen, db, createdAt, flushes>>

\* as InserterClosed, without the insertBatch() after the loop
InserterClosedNoFlush ==
    /\ pcIns = "recv"
    /\ usersChan = <<>>
    /\ usersCloses > 0
    /\ final' = TRUE
    /\ pcIns' = "send"
    /\ UNCHANGED <<inputVars, handlerVars, cancelled, pushedAtCancel, pcMain, result, colIndex, readerVars, rowsChan,
                   workerVars, usersChan, supVars, batch, totalInserted, txOpen, db, createdAt,
                   flushes>>

\* range over the closed and drained usersChan ends: the last insertBatch(),
\* which returns at once on an empty batch
InserterClosed ==
    /\ pcIns = "recv"
    /\ usersChan = <<>>
    /\ usersCloses > 0
    /\ final' = TRUE
    /\ pcIns' = IF batch = <<>> THEN "send" ELSE "begin"
    /\ UNCHANGED <<inputVars, handlerVars, cancelled, pushedAtCancel, pcMain, result, colIndex, readerVars, rowsChan,
                   workerVars, usersChan, supVars, batch, totalInserted, txOpen, db, createdAt,
                   flushes>>

\* as AfterInsertBatch, with the count handed over on `done` after every
\* insertBatch
AfterInsertBatchReport == "send"

\* where insertBatch returns to
AfterInsertBatch == IF final THEN "send" ELSE "recv"

\* db.BeginTx(ctx, nil): ctx.Err() once the context is done, else the
\* transaction or a database error
BeginOutcomes == IF cancelled THEN {"ctx"} ELSE {"ok", "db"}

\* tx.ExecContext and tx.Commit on the open transaction: ctx.Err() once the
\* context is done (database/sql rolls the transaction back); an undefined
\* column of the statement and a key that occurs twice in the statement are
\* errors of the statement; else the commit or a database error
ExecOutcomes ==
    IF cancelled THEN {"ctx"}
    ELSE IF ~(UpsertColumns \subseteq tableColumns) THEN {"column"}
    ELSE IF Cardinality(Keys(batch)) < Len(batch) THEN {"cardinality"}
    ELSE {"ok", "db"}

\* as InserterBegin, with the batch kept when BeginTx fails
InserterBeginKeep ==
    /\ pcIns = "begin"
    /\ \E outcome \in BeginOutcomes :
        IF outcome = "ok"
        THEN /\ txOpen' = txOpen + 1
             /\ pcIns' = "exec"
             /\ UNCHANGED <<batch, flushes>>
        ELSE /\ flushes' = Append(flushes, [lines |-> Lines(batch), outcome |-> outcome])
             /\ pcIns' = AfterInsertBatch
             /\ UNCHANGED <<batch, txOpen>>
    /\ UNCHANGED <<inputVars, handlerVars, cancelled, pushedAtCancel, pcMain, result, colIndex, readerVars, rowsChan,
                   workerVars, usersChan, supVars, totalInserted, final, db, createdAt>>

\* insertBatch -> bulkInsert up to BeginTx; on an error the batch is logged
\* and reset
InserterBegin ==
    /\ pcIns = "begin"
    /\ \E outcome \in BeginOutcomes :
        IF outcome = "ok"
        THEN /\ txOpen' = txOpen + 1
             /\ pcIns' = "exec"
             /\ UNCHANGED <<batch, flushes>>
        ELSE /\ flushes' = Append(flushes, [lines |-> Lines(batch), outcome |-> outcome])
             /\ batch' = <<>>
             /\ pcIns' = AfterInsertBatch
             /\ UNCHANGED txOpen
    /\ UNCHANGED <<inputVars, handlerVars, cancelled, pushedAtCancel, pcMain, result, colIndex, readerVars, rowsChan,
                   workerVars, usersChan, supVars, totalInserted, final, db, createdAt>>

\* as InserterExec, with the batch counted whether or not bulkInsert failed
InserterExecCountAll ==
    /\ pcIns = "exec"
    /\ \E outcome \in ExecOutcomes :
        /\ flushes' = Append(flushes, [lines |-> Lines(batch), outcome |-> outcome])
        /\ IF outcome = "ok"
           THEN /\ db' = Upsert(db, batch)
                /\ createdAt' = CreatedAt(createdAt, batch, Now)
           ELSE UNCHANGED <<db, createdAt>>
    /\ totalInserted' = totalInserted + Len(batch)
    /\ txOpen' = txOpen - 1
    /\ batch' = <<>>
    /\ pcIns' = AfterInsertBatch
    /\ UNCHANGED <<inputVars, handlerVars, cancelled, pushedAtCancel, pcMain, result, colIndex, readerVars, rowsChan,
                   workerVars, usersChan, supVars, final>>

\* as InserterExec, without the deferred tx.Rollback(): the transaction of a
\* failed statement stays open
InserterExecNoRollback ==
    /\ pcIns = "exec"
    /\ \E outcome \in ExecOutcomes :
        /\ flushes' = Append(flushes, [lines |-> Lines(batch), outcome |-> outcome])
        /\ IF outcome = "ok"
           THEN /\ db' = Upsert(db, batch)
                /\ createdAt' = CreatedAt(createdAt, batch, Now)
                /\ totalInserted' = totalInserted + Len(batch)
                /\ txOpen' = txOpen - 1
           ELSE UNCHANGED <<db, createdAt, totalInserted, txOpen>>
    /\ batch' = <<>>
    /\ pcIns' = AfterInsertBatch
    /\ UNCHANGED <<inputVars, handlerVars, cancelled, pushedAtCancel, pcMain, result, colIndex, readerVars, rowsChan,
                   workerVars, usersChan, supVars, final>>

\* bulkInsert from ExecContext to its return (commit, or the deferred
\* Rollback), then the rest of insertBatch: count added on success, batch reset
InserterExec ==
    /\ pcIns = "exec"
    /\ \E outcome \in ExecOutcomes :
        /\ flushes' = Append(flushes, [lines |-> Lines(batch), outcome |-> outcome])
        /\ IF outcome = "ok"
           THEN /\ db' = Upsert(db, batch)
                /\ createdAt' = CreatedAt(createdAt, batch, Now)
                /\ totalInserted' = totalInserted + Len(batch)
           ELSE UNCHANGED <<db, createdAt, totalInserted>>
    /\ txOpen' = txOpen - 1
    /\ batch' = <<>>
    /\ pcIns' = AfterInsertBatch
    /\ UNCHANGED <<inputVars, handlerVars, cancelled, pushedAtCancel, pcMain, result, colIndex, readerVars, rowsChan,
                   workerVars, usersChan, supVars, final>>

\* ------------------------------------------------------------- handler
\* some bulkInsert of the call failed on the database or on the context
EnvFailed == \E k \in 1..Len(flushes) : flushes[k].outcome \in {"db", "ctx"}

\* as HandlerStep, with an error of processCSVStreaming logged and the loop
\* continued with the next record
HandlerStepContinue ==
    /\ pcHandler = "run"
    /\ pcMain = "returned"
    /\ IF result.err # "nil"
       THEN UNCHANGED <<notif, dbAfter>>
       ELSE /\ notif' = Append(notif, [count |-> result.count, state |-> "spawned"])
            /\ dbAfter' = Append(dbAfter, [table |-> db, envFailed |-> EnvFailed])
    /\ IF ev < Len(events)
       THEN /\ ev' = ev + 1
            /\ header' = events[ev + 1].header
            /\ src' = events[ev + 1].src
            /\ faulty' = events[ev + 1].faulty
            /\ Reset("start")
            /\ UNCHANGED <<pcHandler, handlerResult>>
       ELSE /\ handlerResult' = "nil"
            /\ pcHandler' = "done"
            /\ Reset("none")
            /\ UNCHANGED <<ev, header, src, faulty>>
    /\ pushedAtCancel' = 0
    /\ UNCHANGED <<events, numWorkers, batchSize, tableColumns, cancelled, db, createdAt>>

\* handler after processCSVStreaming returned: `return err`, or the `go func`
\* that calls triggerMatchingWorkflow(userCount) and the next record of the
\* loop, or `return nil` after the last record. The locals of the call that
\* returned are gone.
HandlerStep ==
    /\ pcHandler = "run"
    /\ pcMain = "returned"
    /\ IF result.err # "nil"
       THEN /\ handlerResult' = result.err
            /\ pcHandler' = "done"
            /\ Reset("none")
            /\ UNCHANGED <<ev, notif, dbAfter, header, src, faulty>>
       ELSE /\ notif' = Append(notif, [count |-> result.count, state |-> "spawned"])
            /\ dbAfter' = Append(dbAfter, [table |-> db, envFailed |-> EnvFailed])
            /\ IF ev < Len(events)
               THEN /\ ev' = ev + 1
                    /\ header' = events[ev + 1].header
                    /\ src' = events[ev + 1].src
                    /\ faulty' = events[ev + 1].faulty
                    /\ Reset("start")
                    /\ UNCHANGED <<pcHandler, handlerResult>>
               ELSE /\ handlerResult' = "nil"
                    /\ pcHandler' = "done"
                    /\ Reset("none")
                    /\ UNCHANGED <<ev, header, src, faulty>>
    /\ pushedAtCancel' = 0
    /\ UNCHANGED <<events, numWorkers, batchSize, tableColumns, cancelled, db, createdAt>>

\* as NotifierInvoke, with the error of triggerMatchingWorkflow returned by
\* handler
NotifierInvokeRaise(i) ==
    /\ notif[i].state = "spawned"
    /\ \E outcome \in {"session", "invoke", "ok"} :
        /\ notif' = [notif EXCEPT ![i].state = IF outcome = "ok" THEN "invoked" ELSE "logged"]
        /\ IF outcome = "ok"
           THEN UNCHANGED <<pcHandler, handlerResult>>
           ELSE /\ pcHandler' = "done"
                /\ handlerResult' = "failed to invoke matching function"
    /\ UNCHANGED <<events, ev, dbAfter, faulty, inputVars, cancelled,
                   pushedAtCancel, pcMain, result, colIndex, readerVars, rowsChan, workerVars,
                   usersChan, supVars, insVars>>

\* triggerMatchingWorkflow in its goroutine: session.NewSession, then
\* lambdaSvc.Invoke with InvocationType "Event"; an error is returned to the
\* goroutine, which logs it.
NotifierInvoke(i) ==
    /\ notif[i].state = "spawned"
    /\ \E outcome \in {"session", "invoke", "ok"} :
        notif' = [notif EXCEPT ![i].state = IF outcome = "ok" THEN "invoked" ELSE "logged"]
    /\ UNCHANGED <<events, ev, pcHandler, handlerResult, dbAfter, faulty, inputVars, cancelled,
                   pushedAtCancel, pcMain, result, colIndex, readerVars, rowsChan, workerVars,
                   usersChan, supVars, insVars>>

\* Status codes the webhook answers with.
StatusCodes == {200, 302, 404, 500}

\* handler of trigger-matching on the event of an accepted Invoke: an error
\* when N8N_WEBHOOK_URL is not set, when http.Post fails and when the status
\* code is 400 or more.
TriggerHandler(i) ==
    /\ notif[i].state = "invoked"
    /\ \E urlSet \in BOOLEAN, posted \in BOOLEAN, status \in StatusCodes :
        LET err == \/ ~urlSet
                   \/ ~posted
                   \/ status >= 400
        IN notif' = [notif EXCEPT ![i].state = IF err THEN "webhookErr" ELSE "webhookOk"]
    /\ UNCHANGED <<events, ev, pcHandler, handlerResult, dbAfter, faulty, inputVars, cancelled,
                   pushedAtCancel, pcMain, result, colIndex, readerVars, rowsChan, workerVars,
                   usersChan, supVars, insVars>>

\* ---------------------------------------------------------------- system
Next ==
    \/ MainStart
    \/ MainErrorsClosed
    \/ MainRecvDone
    \/ HandlerStep
    \/ \E i \in 1..Len(notif) : NotifierInvoke(i)
    \/ \E i \in 1..Len(notif) : TriggerHandler(i)
    \/ Cancel
    \/ ReaderEOF
    \/ ReaderSkip
    \/ ReaderIOError
    \/ ReaderSend
    \/ ReaderCancel
    \/ \E w \in Workers : WorkerRecv(w)
    \/ \E w \in Workers : WorkerSend(w)
    \/ \E w \in Workers : WorkerExit(w)
    \/ SupCloseUsers
    \/ SupCloseErrors
    \/ InserterRecv
    \/ InserterClosed
    \/ InserterBegin
    \/ InserterExec

Spec == Init /\ [][Next]_vars

\* While some goroutine of the pipeline can take a step, a step is eventually
\* taken (the Go scheduler runs runnable goroutines and every database call
\* returns); no goroutine loops, so this starves none. The cancellation of the
\* context is not owed to anyone, and neither is a step of the notification
\* goroutines.
Reader == ReaderEOF \/ ReaderSkip \/ ReaderIOError \/ ReaderSend \/ ReaderCancel
Worker(w) == WorkerRecv(w) \/ WorkerSend(w) \/ WorkerExit(w)
Supervisor == SupCloseUsers \/ SupCloseErrors
Inserter == InserterRecv \/ InserterClosed \/ InserterBegin \/ InserterExec
Main == MainStart \/ MainErrorsClosed \/ MainRecvDone \/ HandlerStep

Progress ==
    \/ Main \/ Reader \/ Supervisor \/ Inserter
    \/ \E w \in Workers : Worker(w)

\* The runs on the file Backlog: with one and two workers on a sound body,
\* with one worker on a body whose reads may fail.
InitBacklog ==
    /\ \/ events = <<Event(StdHeader, Backlog, FALSE)>> /\ numWorkers \in {1, 2}
       \/ events = <<Event(StdHeader, Backlog, TRUE)>> /\ numWorkers = 1
    /\ batchSize = MaxBatch
    /\ tableColumns = ContractColumns
    /\ Start

FairSpec == InitBacklog /\ [][Next]_vars /\ WF_vars(Progress)

\* One object of one or two lines per invocation, one worker, batch size 1:
\* every header of HeaderPool over two lines (one valid, one not, the first
\* cut short in front), and two headers over every line of ValsPool; the reads
\* of the first header's body may fail.
InitParse ==
    /\ \/ \E l \in Layouts, st \in Styles, v \in {BaseVals, BadVals} :
            events = <<Event(HeaderOf(l, st),
                             <<ShortOf(RowOf(l, v)), RowOf(l, v)>>,
                             l = IdentityLayout /\ st = "plain")>>
       \/ \E l \in {IdentityLayout, <<3, 0, 1, 6, 2, 0, 5, 4>>}, v \in ValsPool :
            events = <<Event(HeaderOf(l, IF l = IdentityLayout THEN "plain" ELSE "mixed"),
                             <<RowOf(l, v)>>, FALSE)>>
    /\ numWorkers = 1
    /\ batchSize = 1
    /\ tableColumns = ContractColumns
    /\ Start

ParseSpec == InitParse /\ [][Next]_vars

\* Objects of invocations with several records.
FileA == Event(StdHeader, <<BadQuote, RowU1>>, FALSE)
FileB == Event(StdHeader, <<RowU1b, ValidRow("2")>>, FALSE)
FileDup == Event(StdHeader, DupKeys, FALSE)
FileNoAge == Event(HeaderOf(<<1, 2, 3, 4, 5>>, "plain"), <<>>, FALSE)
FileFaulty == Event(StdHeader, <<RowU1>>, TRUE)
EventLists ==
    {<<FileA, FileA>>, <<FileA, FileB>>, <<FileB, FileA>>,
     <<FileA, FileNoAge, FileB>>, <<FileFaulty, FileA>>}

\* Two or three objects per invocation, one and two workers, batch size 1,
\* against both tables.
InitHandler ==
    /\ events \in EventLists
    /\ numWorkers \in {1, 2}
    /\ batchSize = 1
    /\ tableColumns \in {InitSqlColumns, ContractColumns}
    /\ Start

HandlerSpec == InitHandler /\ [][Next]_vars

\* One object whose body may fail for good at any read after the header.
InitSticky ==
    /\ events = <<StickyEvent(StdHeader, <<RowU1, BadQuote, RowU1b>>)>>
    /\ numWorkers \in {1, MaxWorkers}
    /\ batchSize \in {1, MaxBatch}
    /\ tableColumns = ContractColumns
    /\ Start

StickySpec == InitSticky /\ [][Next]_vars /\ WF_vars(Progress)

\* The same object twice, and two objects with one key, per invocation,
\* against the table of the contract: FileDup twice with two workers and batch
\* size 2, and lists of one-row and two-row files with one worker and batch
\* size 1.
InitTwice ==
    /\ \/ /\ events = <<FileDup, FileDup>>
          /\ numWorkers = 2
          /\ batchSize = 2
       \/ /\ events \in {<<FileA, FileA>>, <<FileA, FileB>>, <<FileFaulty, FileA>>}
          /\ numWorkers = 1
          /\ batchSize = 1
    /\ tableColumns = ContractColumns
    /\ Start

TwiceSpec == InitTwice /\ [][Next]_vars

\* ------------------------------------------------------ derived history
RECURSIVE Flatten(_)
Flatten(ss) == IF ss = <<>> THEN <<>> ELSE Head(ss) \o Flatten(Tail(ss))

Range(q) == {q[i] : i \in 1..Len(q)}
NoDup(q) == \A i, j \in 1..Len(q) : q[i] = q[j] => i = j

FlushLines == [k \in 1..Len(flushes) |-> flushes[k].lines]
FlushSizes == [k \in 1..Len(flushes) |-> Len(flushes[k].lines)]
Committed == {k \in 1..Len(flushes) : flushes[k].outcome = "ok"}
Failed == {k \in 1..Len(flushes) : flushes[k].outcome # "ok"}

\* lines whose User batchInserter has received, in order of arrival
Arrived == Flatten(FlushLines) \o Lines(batch)
\* lines whose User a worker has sent on usersChan, in order
Pushed == Arrived \o Lines(usersChan)
\* lines whose User is in a committed batch
CommittedLines == UNION {Range(flushes[k].lines) : k \in Committed}

RECURSIVE SumSizes(_, _)
SumSizes(ks, sizes) ==
    IF ks = {} THEN 0
    ELSE LET k == CHOOSE x \in ks : TRUE IN sizes[k] + SumSizes(ks \ {k}, sizes)

ReturnedCount == pcMain = "returned" /\ result.err = "nil"
Started == {w \in Workers : w <= numWorkers}

\* ------------------------------------------------------------------ claims

\* C1: when processCSVStreaming returns a count with a nil error, the reader
\* has closed rowsChan, rowsChan is empty, every started parseWorker has
\* exited, usersChan is closed and empty, the batch of batchInserter is empty
\* and no transaction is open: nothing is in flight.
C1_ReturnMeansDrained ==
    ReturnedCount =>
        /\ pcReader = "done" /\ rowsCloses >= 1 /\ rowsChan = <<>>
        /\ \A w \in Started : pcWorker[w] = "done"
        /\ usersCloses >= 1 /\ usersChan = <<>>
        /\ batch = <<>> /\ txOpen = 0 /\ pcIns = "done"

\* a job that returned after rows went through both queues and a final flush
C1_Witness ==
    /\ ReturnedCount
    /\ numWorkers = MaxWorkers
    /\ Len(enq) >= 2 /\ Len(Arrived) >= 2
    /\ flushes # <<>> /\ final

\* C2: usersChan is closed at most once and only when every started
\* parseWorker has exited; no worker ever sends on the closed usersChan.
C2_CloseAfterLastWorker ==
    /\ usersCloses <= 1
    /\ usersCloses >= 1 => \A w \in Started : pcWorker[w] = "done"
    /\ \A w \in Workers : pcWorker[w] # "panic"

\* usersChan closed after two workers each took a row
C2_Witness ==
    /\ usersCloses = 1
    /\ numWorkers >= 2
    /\ Len(deq) >= 2 /\ Len(Pushed) >= 2

\* C3: every row sent on rowsChan is received from it exactly once, by one
\* worker: at every moment the rows sent are the rows received followed by the
\* rows still queued, no row twice, and again and again every row sent so far
\* has been received (the reader blocks on a full rowsChan and drops nothing).
C3_EveryRowOnce ==
    /\ [](enq = deq \o [i \in 1..Len(rowsChan) |-> rowsChan[i].line])
    /\ [](NoDup(enq))
    /\ [](pcReader = "run" =>
            Range(enq) = {i \in 1..(pos - 1) : ReadOK(src[i], Len(header))})
    /\ []<>(Len(deq) = Len(enq))

\* the reader is blocked on a full rowsChan with rows left to send, while
\* every worker is busy
C3_Witness ==
    /\ pcReader = "run"
    /\ ~AtEOF
    /\ Len(rowsChan) = ChannelBuffer
    /\ \A w \in Started : pcWorker[w] = "send"
    /\ Len(src) > ChannelBuffer + numWorkers

\* the lines of the file (standard header) that the tokenizer splits and
\* whose monthly_income, credit_score and age are numbers
NumericOK(fields) ==
    /\ ParseFloat(TrimSpace(fields[3])).ok
    /\ Atoi(TrimSpace(fields[4])).ok
    /\ Atoi(TrimSpace(fields[6])).ok
ValidLines ==
    {i \in 1..Len(src) : ReadOK(src[i], Len(header)) /\ NumericOK(src[i].fields)}

RECURSIVE CountInOrder(_)
CountInOrder(keys) ==
    IF keys = <<>> THEN 0
    ELSE LET n == IF Len(keys) < batchSize THEN Len(keys) ELSE batchSize
             first == SubSeq(keys, 1, n)
             good == UpsertColumns \subseteq tableColumns /\ NoDup(first)
         IN (IF good THEN n ELSE 0) + CountInOrder(SubSeq(keys, n + 1, Len(keys)))

RECURSIVE Ascending(_)
Ascending(S) ==
    IF S = {} THEN <<>>
    ELSE LET m == CHOOSE x \in S : \A y \in S : x <= y IN <<m>> \o Ascending(S \ {m})

ValidKeysInOrder ==
    LET ls == Ascending(ValidLines)
    IN [i \in 1..Len(ls) |-> TrimSpace(src[ls[i]].fields[1])]

InserterFinished == pcIns \in {"send", "done"}

\* the flush sizes that n arrivals make with batches of b
SizesFor(n, b) ==
    [k \in 1..((n + b - 1) \div b) |-> IF k * b <= n THEN b ELSE n % b]

\* C6: the bulkInsert calls depend on the number of arrivals alone: every call
\* but the last is made on batchSize records, a shorter call is made only
\* after usersChan closed, and when batchInserter is through n arrivals made
\* the calls of sizes batchSize, ..., batchSize and n mod batchSize (no call
\* on an empty rest). Batch size 2 and five valid rows: sizes 2, 2, 1, and the
\* count 5 when all three commit.
C6_BatchBoundaries ==
    /\ \A k \in 1..Len(flushes) :
        /\ FlushSizes[k] >= 1
        /\ k < Len(flushes) => FlushSizes[k] = batchSize
        /\ FlushSizes[k] # batchSize => final /\ FlushSizes[k] < batchSize
    /\ Len(batch) <= batchSize
    /\ InserterFinished => FlushSizes = SizesFor(Len(Arrived), batchSize)
    /\ (InserterFinished /\ src = FiveValid /\ batchSize = 2 /\ Len(Arrived) = 5) =>
        /\ FlushSizes = <<2, 2, 1>>
        /\ (ReturnedCount /\ Failed = {}) => result.count = 5

\* five valid rows went through three committed flushes
C6_Witness ==
    /\ ReturnedCount
    /\ src = FiveValid /\ batchSize = 2
    /\ FlushSizes = <<2, 2, 1>> /\ Failed = {}
    /\ result.count = 5

FiveRowsThreeFlushes ==
    /\ ReturnedCount
    /\ src = FiveValid /\ batchSize = 2
    /\ Len(flushes) = 3

UserOfLine(i) == parseUserRecord(src[i].fields, colIndex).user

\* the table as the ingestions before this one left it
DbBefore == IF dbAfter = <<>> THEN <<>> ELSE dbAfter[Len(dbAfter)].table

\* the table after the committed statements of the flush history of a call,
\* in order, on the table that the call found
RECURSIVE Replay(_)
Replay(fs) ==
    IF fs = <<>> THEN DbBefore
    ELSE LET before == Replay(SubSeq(fs, 1, Len(fs) - 1))
             last == fs[Len(fs)]
         IN IF last.outcome = "ok"
            THEN Upsert(before, [i \in 1..Len(last.lines) |->
                                    [line |-> last.lines[i], user |-> UserOfLine(last.lines[i])]])
            ELSE before

\* C8: totalInserted (and the count returned) is the sum of the sizes of the
\* committed batches; no record is flushed twice (a failed batch is not
\* retried); the table is what the committed batches alone wrote, in order
\* (a failed batch wrote nothing, the batches committed before it stay and
\* the batches after it are flushed).
C8_CommittedBatchesCount ==
    /\ totalInserted = SumSizes(Committed, FlushSizes)
    /\ ReturnedCount => result.count = SumSizes(Committed, FlushSizes)
    /\ NoDup(Arrived)
    /\ db = Replay(flushes)
    /\ InserterFinished => batch = <<>>

\* a committed batch, then a failed one, then a committed one
C8_Witness ==
    /\ Len(flushes) = 3
    /\ flushes[1].outcome = "ok" /\ flushes[2].outcome # "ok" /\ flushes[3].outcome = "ok"
    /\ ReturnedCount
    /\ result.count = FlushSizes[1] + FlushSizes[3]

\* C9 (as claimed): in a cancelled job in which no flush failed for another
\* reason than the cancellation, every record that had been sent on usersChan
\* when the context was cancelled is in a committed batch, is in the table and
\* is counted.
C9_CancelKeepsPushed ==
    (/\ ReturnedCount /\ cancelled
     /\ \A k \in 1..Len(flushes) : flushes[k].outcome \in {"ok", "ctx"})
        => /\ \A n \in 1..pushedAtCancel :
                /\ Pushed[n] \in CommittedLines
                /\ UserOfLine(Pushed[n]).UserID \in DOMAIN db
           /\ result.count >= pushedAtCancel

\* C10 (as claimed): once the context is cancelled no further row is sent on
\* rowsChan.
C10_NoSendAfterCancel == [][cancelled => enq' = enq]_vars

\* ---- the column resolver and the record parser, against the spellings and
\* the field texts the files are made of
Variants(k) == {Spell(requiredCols[k], st) : st \in Styles}
Present(k) == \E i \in 1..Len(header) : header[i] \in Variants(k)
MissingColumn == \E k \in 1..Len(requiredCols) : ~Present(k)
\* zero-based position of the (last) column that spells requiredCols[k]
ExpectedPos(k) ==
    (CHOOSE i \in 1..Len(header) :
        /\ header[i] \in Variants(k)
        /\ \A j \in 1..Len(header) : header[j] \in Variants(k) => j <= i) - 1

PipelineIdle ==
    /\ pcReader = "idle" /\ pos = 1 /\ enq = <<>> /\ rowsChan = <<>>
    /\ \A w \in Workers : pcWorker[w] = "idle"
    /\ wg = 0
    /\ pcSup = "idle"
    /\ pcIns = "idle" /\ batch = <<>> /\ usersChan = <<>>
    /\ txOpen = 0 /\ flushes = <<>>

\* C11: for a header that lacks a required column the pipeline is never
\* started: no worker, no batchInserter, no reader loop, no row read, no
\* transaction, no write to the table, no notification for the file; the call
\* returns an error (the schema error, unless a call before the header check
\* failed) and handler returns that error.
C11_SchemaErrorBeforeStart ==
    MissingColumn =>
        /\ PipelineIdle
        /\ db = DbBefore
        /\ Len(notif) < ev
        /\ pcMain = "returned" =>
            /\ result.count = 0
            /\ result.err \in {"missing required column"} \cup
                                {PreError(p) : p \in PreOutcomes \ {"ok"}}
        /\ pcHandler = "done" => handlerResult # "nil"

\* the handler returned the schema error of a header without credit_score
C11_Witness ==
    /\ header = HeaderOf(<<1, 2, 3, 5, 6>>, "upper")
    /\ pcHandler = "done"
    /\ handlerResult = "missing required column"
    /\ notif = <<>> /\ db = <<>>

PipelineStarted == pcMain \in {"rangeErrors", "recvDone"} \/ ReturnedCount

\* C12: createColumnIndex followed by validateColumns succeeds exactly for
\* the headers in which each of the six required names is spelled (in any
\* order, any letter case, with white space around it, among other columns),
\* and then maps each required name to the zero-based position of its column
\* (of the last one when two columns spell it); the pipeline is started with
\* that map and the schema error is returned for the other headers only.
C12_ResolverAcceptsExactly ==
    LET idx == createColumnIndex(header) IN
    /\ validateColumns(idx) <=> ~MissingColumn
    /\ ~MissingColumn =>
        \A k \in 1..Len(requiredCols) : idx[requiredCols[k]] = ExpectedPos(k)
    /\ PipelineStarted =>
        /\ ~MissingColumn
        /\ \A k \in 1..Len(requiredCols) : colIndex[requiredCols[k]] = ExpectedPos(k)
    /\ result.err = "missing required column" => MissingColumn

\* the pipeline runs on a reordered header in mixed case with two other columns
C12_Witness ==
    /\ header = HeaderOf(<<3, 0, 1, 6, 2, 0, 5, 4>>, "mixed")
    /\ PipelineStarted
    /\ colIndex[Str_user_id] = 2 /\ colIndex[Str_age] = 3 /\ colIndex[Str_monthly_income] = 0

FloatCase(raw) == CHOOSE c \in FloatCases : c.raw = raw
IntCase(raw) == CHOOSE c \in IntCases : c.raw = raw
StrCase(raw) == CHOOSE c \in StrCases : c.raw = raw
RawAt(line, k) == src[line].fields[ExpectedPos(k) + 1]
ExpectedOK(line) ==
    /\ FloatCase(RawAt(line, 3)).ok
    /\ IntCase(RawAt(line, 4)).ok
    /\ IntCase(RawAt(line, 6)).ok
ExpectedUser(line) ==
    [UserID |-> StrCase(RawAt(line, 1)).trimmed,
     Email |-> StrCase(RawAt(line, 2)).trimmed,
     MonthlyIncome |-> FloatCase(RawAt(line, 3)).val,
     CreditScore |-> IntCase(RawAt(line, 4)).val,
     EmploymentStatus |-> StrCase(RawAt(line, 5)).trimmed,
     Age |-> IntCase(RawAt(line, 6)).val]

\* the records that exist: held by a worker for its send, queued, in the batch
Held == {user[w] : w \in {x \in Workers : pcWorker[x] = "send"}}
Records == Held \cup Range(usersChan) \cup Range(batch)

\* C13: every row a worker received with three numeric fields that parse gave
\* one record, whose string fields are the trimmed texts of the row and whose
\* numeric fields are the parsed values; every other row a worker received gave
\* no record; every row that reaches the parser has a field at each index of
\* the column map, and no worker panicked.
C13_ParserRecordOrNothing ==
    /\ \A r \in Records : ExpectedOK(r.line) /\ r.user = ExpectedUser(r.line)
    /\ \A line \in Range(deq) :
        ExpectedOK(line) <=> line \in Range(Pushed) \cup {r.line : r \in Held}
    /\ \A i \in 1..Len(rowsChan), k \in 1..Len(requiredCols) :
        colIndex[requiredCols[k]] + 1 \in 1..Len(rowsChan[i].record)
    /\ \A w \in Workers : pcWorker[w] # "panic"

\* a row with white space around its user_id is in the table under the
\* trimmed key
C13_Witness ==
    /\ ReturnedCount
    /\ src = <<RowOf(IdentityLayout, [BaseVals EXCEPT ![1] = <<" ", "U", "1", "\t">>])>>
    /\ DOMAIN db = {U("1")}
    /\ db[U("1")] = [ExpectedUser(1) EXCEPT !.UserID = U("1")]

\* the key of a line of the file (standard header)
KeyOfLine(i) == TrimSpace(src[i].fields[1])
OnceInFile(i) == \A j \in ValidLines : KeyOfLine(j) = KeyOfLine(i) => j = i

ReaderLeftOnCancel ==
    /\ pcReader = "done" /\ pos > 1
    /\ ReadOK(src[pos - 1], Len(header))
    /\ (pos - 1) \notin Range(enq)
\* reads of data rows of this object that failed with an I/O error
ReadErrors == lineNum - pos + (IF ReaderLeftOnCancel THEN 1 ELSE 0)

SourceErrors ==
    {"failed to create AWS session", "failed to get object from S3",
     "failed to read CSV header"}

\* C15 (as claimed): a call of processCSVStreaming in which the object could
\* not be opened or a read of it failed, in the header or in a later row,
\* returns an error, and no notification is made for that object (stated for
\* the calls whose context is live).
C15_ReadFailureAborts ==
    /\ (pcMain = "returned" /\ ReadErrors > 0 /\ ~cancelled) => result.err # "nil"
    /\ (pcMain = "returned" /\ result.err \in SourceErrors) =>
            PipelineIdle /\ Len(notif) < ev
    /\ (pcHandler = "done" /\ handlerResult \in SourceErrors) => Len(notif) < ev

\* C16 (as claimed): processCSVStreaming returns an error only for a schema
\* error or an error of opening or reading the object.
C16_OnlySchemaOrSourceErrors ==
    pcMain = "returned" =>
        result.err \in {"nil", "missing required column"} \cup SourceErrors

\* C16 (amended): processCSVStreaming returns an error only for the schema
\* error and for a failure of a call that precedes the header check (the AWS
\* session, the object, the database pool, the read of the header), always
\* with count 0 and with the pipeline not started; once the header is
\* validated it returns a nil error, with a count that the discarded rows and
\* the failed flushes do not reach.
C16_ErrorsOnlyBeforeStart ==
    /\ pcMain = "returned" =>
        /\ result.err \in {"nil", "missing required column"} \cup
                            {PreError(p) : p \in PreOutcomes \ {"ok"}}
        /\ result.err # "nil" => PipelineIdle /\ colIndex = <<>> /\ result.count = 0
        /\ result.err = "nil" =>
            /\ colIndex # <<>>
            /\ result.count = SumSizes(Committed, FlushSizes)
            /\ result.count <= Cardinality(ValidLines)
    /\ (pcMain \notin {"start", "returned", "none"}) => result = NoResult

\* a call returned nil and the count 0 after two rows, one discarded by the
\* parser and one lost with its failed flush
C16_Witness ==
    /\ ReturnedCount /\ ~cancelled
    /\ src = TwoRowScenario
    /\ Range(deq) = {1, 2}
    /\ Len(flushes) = 1 /\ Committed = {}
    /\ result.count = 0


jobVars ==
    <<events, ev, pcHandler, handlerResult, dbAfter, pcMain, result, db, totalInserted,
      flushes>>
NotifCounts == [i \in 1..Len(notif) |-> notif[i].count]

\* C17: a step of a notification (triggerMatchingWorkflow in its goroutine,
\* the trigger-matching handler and its webhook call) changes nothing of the
\* job: not what handler returns, not the record it is at, not a count, not the
\* table; handler returns nil exactly when every record was ingested, whatever
\* became of the notifications; and when processCSVStreaming has returned,
\* handler can go on at once, whatever state the notifications are in.
C17_NotificationNeverCounts ==
    /\ [][(notif' # notif /\ Len(notif') = Len(notif)) => UNCHANGED jobVars]_vars
    /\ [](pcHandler = "done" => (handlerResult = "nil" <=> Len(notif) = Len(events)))
    /\ []((pcHandler = "run" /\ pcMain = "returned") => ENABLED HandlerStep)

\* handler returned nil although the first notification was answered with an
\* error by the webhook and the second could not be invoked
C17_Witness ==
    /\ pcHandler = "done" /\ handlerResult = "nil"
    /\ Len(notif) = 2
    /\ notif[1].state = "webhookErr" /\ notif[2].state = "logged"

\* C18: handler works through the records one at a time in list order: the
\* ingestion of a record is under way only when every record before it has
\* returned a count and has its notification goroutine, which carries that
\* count; handler moves to the next record, by one, only from a call that
\* returned a count. A call that returns an error ends handler with that
\* error, without a notification for the record, with the later records
\* untouched and with the table as the earlier records left it; no step ever
\* removes a row from the table.
C18_EventsInOrder ==
    /\ [](ev \in 1..Len(events))
    /\ [](pcHandler = "run" => Len(notif) = ev - 1 /\ Len(dbAfter) = ev - 1)
    /\ [](header = events[ev].header /\ src = events[ev].src)
    /\ [][Len(notif') # Len(notif) =>
            /\ pcMain = "returned" /\ result.err = "nil"
            /\ notif' = Append(notif, [count |-> result.count, state |-> "spawned"])
            /\ result.count = totalInserted]_vars
    /\ [][NotifCounts' = NotifCounts \/ Len(notif') = Len(notif) + 1]_vars
    /\ [][ev' # ev => ev' = ev + 1 /\ Len(notif') = ev /\ pcMain' = "start"]_vars
    /\ [][(pcMain = "returned" /\ result.err # "nil" /\ pcMain' # pcMain) =>
            /\ pcHandler' = "done" /\ handlerResult' = result.err
            /\ notif' = notif /\ ev' = ev /\ db' = db]_vars
    /\ [](pcHandler = "done" =>
            /\ pcMain = "none" /\ PipelineIdle
            /\ handlerResult # "nil" => Len(notif) = ev - 1 /\ db = DbBefore)
    /\ [][\A k \in DOMAIN db : k \in DOMAIN db']_vars

\* handler returned the schema error of the second of three records: one
\* notification, with the count of the first record, whose row is in the table
C18_Witness ==
    /\ events = <<FileA, FileNoAge, FileB>>
    /\ pcHandler = "done" /\ handlerResult = "missing required column"
    /\ ev = 2
    /\ NotifCounts = <<1>>
    /\ DOMAIN db = {U("1")}


\* C19: while handler has not returned, some goroutine of the job can take a
\* step (no deadlock, whatever the two queues hold); the closes come in order
\* (rowsChan closed and drained before usersChan is closed, usersChan before
\* errorsChan, usersChan closed and drained and the batch flushed before
\* batchInserter sends its total, errorsChan closed before
\* processCSVStreaming receives it); and on a body that ends with
\* end-of-stream, without cancellation, handler returns.
C19_Terminates ==
    /\ [](pcHandler = "run" => ENABLED Progress)
    /\ [](usersCloses >= 1 => rowsCloses = 1 /\ rowsChan = <<>> /\ wg = 0)
    /\ [](errorsClosed => usersCloses = 1)
    /\ [](pcIns \in {"send", "done"} => usersCloses = 1 /\ usersChan = <<>> /\ batch = <<>>)
    /\ [](pcMain = "recvDone" => errorsClosed)
    /\ <>(faulty \/ cancelled \/ pcHandler = "done")

\* both queues are full, every worker holds a record it cannot send and the
\* reader has not reached the end of the stream
C19_Witness ==
    /\ ~cancelled /\ ~faulty
    /\ pcReader = "run"
    /\ Len(rowsChan) = ChannelBuffer
    /\ Len(usersChan) = ChannelBuffer
    /\ \A w \in Started : pcWorker[w] = "send"

\* the table that the valid rows give when written in the order of the file
InOrderTable ==
    [k \in {KeyOfLine(i) : i \in ValidLines} |->
        UserOfLine(CHOOSE i \in ValidLines :
                     /\ KeyOfLine(i) = k
                     /\ \A j \in ValidLines : KeyOfLine(j) = k => j <= i)]

NoRepeatedKey == \A i \in ValidLines : OnceInFile(i)

WholeRecordOf(i, u) ==
    LET p == parseUserRecord(src[i].fields, colIndex)
    IN ReadOK(src[i], Len(header)) /\ p.ok /\ p.user = u

\* C21: every record held by a worker for its send, queued on usersChan or in
\* the batch carries the values of one line of the file whose three numeric
\* fields parse, and so does every row of the table: a record is a function
\* of its line alone, the same wherever it is met; no record is the zero User.
C21_RecordsAreWhole ==
    /\ \A r \in Records :
            /\ r.line \in 1..Len(src)
            /\ WholeRecordOf(r.line, r.user)
            /\ r.user # NoUser
    /\ (PipelineStarted /\ Len(events) = 1) =>
            \A k \in DOMAIN db : \E i \in CommittedLines : WholeRecordOf(i, db[k])

\* a worker received a row whose monthly_income is not a number, and the
\* record of the row before it went through the queue and the batch into the
\* table
C21_Witness ==
    /\ src = TwoRowScenario /\ ~faulty
    /\ 2 \in Range(deq)
    /\ Records = {}
    /\ ReturnedCount /\ result.count = 1
    /\ DOMAIN db = {U("1")}
    /\ db[U("1")].CreditScore = 7

\* the reader has read a row that the tokenizer split and waits in its select
\* on a full rowsChan, the context being live
ReaderBlocked ==
    /\ pcReader = "run" /\ ~AtEOF
    /\ ReadOK(src[pos], Len(header))
    /\ Len(rowsChan) = ChannelBuffer
    /\ ~cancelled

\* C22: rowsChan and usersChan never hold more than ChannelBuffer elements and
\* the batch never more than BatchSize; a full batch is being flushed (the
\* inserter is not receiving); every bulkInsert call, failed or not, leaves the
\* batch empty; a reader blocked on a full rowsChan takes no step; and every
\* row read before the current one was sent on rowsChan (but for the row that
\* a reader leaving on ctx.Done() held).
C22_BuffersBounded ==
    /\ [](/\ Len(rowsChan) <= ChannelBuffer
          /\ Len(usersChan) <= ChannelBuffer
          /\ Len(batch) <= batchSize
          /\ Len(batch) = batchSize => pcIns \in {"begin", "exec"}
          /\ pcIns \in {"send", "done"} => batch = <<>>
          /\ ReaderBlocked =>
                ~ENABLED (ReaderSend \/ ReaderSkip \/ ReaderEOF \/ ReaderCancel)
          /\ \A i \in 1..(pos - 1) :
                ReadOK(src[i], Len(header)) =>
                    i \in Range(enq) \/ (pcReader = "done" /\ cancelled /\ i = pos - 1))
    /\ [][Len(flushes') > Len(flushes) => batch' = <<>>]_vars

\* the reader is blocked on a full rowsChan while a full batch is in its
\* transaction
C22_Witness ==
    /\ ReaderBlocked
    /\ Len(batch) = batchSize /\ batchSize = 2
    /\ pcIns = "exec"

\* C23: at most one transaction of the job is open at any time: one is open
\* exactly while batchInserter is inside bulkInsert after BeginTx, a
\* transaction is begun only when none is open, and each ends (commit or
\* rollback) before bulkInsert returns, so the transaction of the next batch
\* is begun after the one before has committed or failed.
C23_FlushesSequential ==
    /\ [](/\ txOpen \in {0, 1}
          /\ txOpen = 1 <=> pcIns = "exec"
          /\ pcIns = "exec" => batch # <<>>)
    /\ [][txOpen' > txOpen => (txOpen = 0 /\ pcIns = "begin" /\ flushes' = flushes)]_vars
    /\ [][Len(flushes') > Len(flushes) => txOpen' = 0]_vars

\* the transaction of the third batch is open after the first committed and
\* the second failed
C23_Witness ==
    /\ txOpen = 1
    /\ Len(flushes) = 2
    /\ flushes[1].outcome = "ok" /\ flushes[2].outcome = "db"
    /\ Lines(batch) # flushes[2].lines

Increasing(q) == \A i, j \in 1..Len(q) : i < j => q[i] < q[j]

\* C24: the lines sent on rowsChan were sent in the order of the file, and
\* rowsChan holds them in that order; with one worker the records that
\* batchInserter received, then those queued on usersChan, then the one the
\* worker holds are in the order of the file. (That two workers can reverse
\* two records is shown by the reachable state C24_Witness.)
C24_SourceOrderUntilWorkers ==
    /\ Increasing(enq)
    /\ Increasing([i \in 1..Len(rowsChan) |-> rowsChan[i].line])
    /\ \A i \in 1..Len(rowsChan) : rowsChan[i].record = src[rowsChan[i].line].fields
    /\ numWorkers = 1 =>
        Increasing(Pushed \o (IF pcWorker[1] = "send" THEN <<user[1].line>> ELSE <<>>))

\* with two workers, the record of the second line is in the batch before
\* the record of the first line
C24_Witness ==
    /\ numWorkers = 2
    /\ src = FiveValid
    /\ flushes = <<>>
    /\ Lines(batch) = <<2, 1>>
    /\ enq = <<1, 2, 3>>

\* batchInserter has started and not returned, and none of its steps can be
\* taken
WriterWaits ==
    /\ pcIns \in {"recv", "begin", "exec", "send"}
    /\ ~ENABLED (Inserter \/ MainRecvDone)

\* C25 (as claimed): batchInserter never waits outside bulkInsert.
C25_WriterWaitsOnlyInFlush == ~WriterWaits

\* C25 (amended): batchInserter waits only in its receive on an empty
\* usersChan that is not closed, or, after the range has ended and the last
\* batch was flushed, in `done <- totalInserted` until processCSVStreaming
\* has left its range over errorsChan; a bulkInsert always comes to its end.
\* No step of batchInserter waits for room in a queue.
C25_WriterWaitsForInputOrHandOff ==
    /\ WriterWaits =>
        \/ pcIns = "recv" /\ usersChan = <<>> /\ usersCloses = 0
        \/ /\ pcIns = "send" /\ pcMain = "rangeErrors"
           /\ final /\ usersCloses = 1 /\ usersChan = <<>> /\ batch = <<>>
    /\ (pcIns = "recv" /\ usersChan # <<>>) => ENABLED InserterRecv
    /\ pcIns \in {"begin", "exec"} => ENABLED (InserterBegin \/ InserterExec)

\* batchInserter waits in `done <- totalInserted` with its records flushed
\* while errorsChan is still open
C25_Witness ==
    /\ WriterWaits
    /\ pcIns = "send" /\ ~errorsClosed
    /\ totalInserted = 2
    /\ ~cancelled

\* C26: a read that returns a row the tokenizer cannot split sends nothing on
\* rowsChan, adds one to lineNum and leaves the reader in its loop, at the
\* next row; every read that returns a row, sent or skipped, adds one to
\* lineNum (but for the read of a reader that leaves on ctx.Done()), so that
\* on a body without I/O errors lineNum is one more than the number of rows
\* read; no row that the tokenizer could not split is ever on rowsChan.
C26_SkipAdvancesLineCounter ==
    /\ [][(pos' = pos + 1 /\ ~ReadOK(src[pos], Len(header))) =>
            /\ lineNum' = lineNum + 1
            /\ enq' = enq /\ rowsChan' = rowsChan
            /\ pcReader' = "run"]_vars
    /\ [][pos' = pos + 1 => (lineNum' = lineNum + 1 \/ (cancelled /\ pcReader' = "done"))]_vars
    /\ [](~faulty => lineNum = pos - (IF ReaderLeftOnCancel THEN 1 ELSE 0))
    /\ [](\A i \in Range(enq) : ReadOK(src[i], Len(header)))

\* a row with a bare quote was skipped and the row after it was sent: two
\* rows read, lineNum is 3
C26_Witness ==
    /\ src = <<BadQuote, RowU1>>
    /\ pcReader = "done" /\ ~cancelled
    /\ enq = <<2>>
    /\ lineNum = 3

\* the step is the end of a bulkInsert call on the batch
FlushEnds == Len(flushes') = Len(flushes) + 1
FlushOutcome == flushes'[Len(flushes')].outcome

ObservedCancel == cancelled /\ ReaderLeftOnCancel

\* C28: rowsChan is closed at most once; after the reader has left on
\* ctx.Done(), some goroutine can take a step as long as the call has not
\* returned, batchInserter receives from a nonempty usersChan whether or not
\* the context is done, and the call returns: with a nil error, rowsChan and
\* usersChan closed once each and every worker returned.
C28_CancelledJobTerminates ==
    /\ [](rowsCloses <= 1 /\ usersCloses <= 1)
    /\ []((ObservedCancel /\ pcHandler = "run") => ENABLED Progress)
    /\ []((cancelled /\ pcIns = "recv" /\ usersChan # <<>>) => ENABLED InserterRecv)
    /\ []((ObservedCancel /\ pcMain = "returned") =>
            /\ result.err = "nil"
            /\ rowsCloses = 1 /\ usersCloses = 1
            /\ \A w \in Started : pcWorker[w] = "done")
    /\ ((ObservedCancel /\ pcMain # "returned") ~> pcMain = "returned")

\* the reader has left on ctx.Done() while a worker waits to send on a full
\* usersChan
C28_Witness ==
    /\ ObservedCancel
    /\ \E w \in Started : pcWorker[w] = "send"
    /\ Len(usersChan) = ChannelBuffer
    /\ pcMain = "rangeErrors"

\* C29 (as claimed): on every body, one whose reads fail for good included,
\* the reader goroutine once started leaves its loop and closes rowsChan, and
\* handler returns.
C29_ReaderAlwaysTerminates ==
    /\ (pcReader = "run") ~> (pcReader = "done" /\ rowsCloses = 1)
    /\ <>(pcHandler = "done")

\* C30: every row sent on rowsChan has as many fields as the header; every
\* position of the column map is an index of the header, hence of every row
\* a worker receives; a row with another number of fields is read and not
\* sent; no worker panics.
C30_RowsMatchHeader ==
    /\ \A i \in 1..Len(rowsChan) : Len(rowsChan[i].record) = Len(header)
    /\ \A line \in Range(enq) : Len(src[line].fields) = Len(header)
    /\ \A name \in DOMAIN colIndex : colIndex[name] + 1 \in 1..Len(header)
    /\ \A i \in 1..(pos - 1) : Len(src[i].fields) # Len(header) => i \notin Range(enq)
    /\ \A w \in Workers : pcWorker[w] # "panic"

\* of a row without its last field and the full row after it, under a
\* header that has age in its last column, the second alone went through a
\* worker
C30_Witness ==
    /\ header = HeaderOf(IdentityLayout, "upper")
    /\ Len(src) = 2 /\ Len(src[1].fields) = Len(header) - 1
    /\ enq = <<2>> /\ deq = <<2>>
    /\ colIndex[Str_age] = Len(header) - 1
    /\ \A w \in Started : pcWorker[w] = "done"

=============================================================================
